---- MODULE Spec2Model ----
(***************************************************************************)
(* Model of src/autosteer/query_span.py: the query-span approximation of   *)
(* AutoSteer (approximate_query_span), the plan fetcher (get_query_plan),  *)
(* the HintSet entity and the persistence loop of run_get_query_span.      *)
(*                                                                         *)
(* HintSet objects live in an arena (heap); an object's identity is its    *)
(* index in the arena, 0 stands for None.  The connector is modelled as a  *)
(* deterministic optimizer: the plan it explains is a function of the set  *)
(* of disabled knobs, fixed the first time that set is explained           *)
(* (explained), or it raises a connection-level fault.                     *)
(***************************************************************************)
EXTENDS Integers, Sequences, FiniteSets, TLC

\* ---------------------------------------------------------------- bounds
\* largest knob catalog that is explored
MaxKnobs == 3

\* ------------------------------------------------------------- constants
\* N_THREADS = int(read_config()['anysteer']['explain_threads'])
N_THREADS == 2

\* FAILED = 'FAILED'
FAILED == "FAILED"

\* the value of HintSet.plan before a fetch has stored a plan
None == "None"

\* what connector.explain can return: the failure sentinel or a plan
Plans == {FAILED, "P0", "P1", "PX"}

\* Python's hash(): not injective; the plan PX collides with the sentinel
Hash(p) == CASE p = FAILED -> 7
             [] p = "PX"   -> 7
             [] p = "P0"   -> 1
             [] p = "P1"   -> 2
             [] OTHER      -> 0

VARIABLES
    knobs,                     \* connector_type.get_knobs(), catalog order
    find_alternative_rules,    \* parameter
    batch_wise,                \* parameter
    heap,                      \* arena of HintSet objects
    hintsets,                  \* the pending pool (sequence of object ids)
    query_span,                \* the span (sequence of object ids)
    results,                   \* results of the last fetched round
    effective_optimizers_indexes,
    default_plan,              \* object id of the current baseline HintSet
    default_plan_hash,
    args,                      \* the HintSets handed to the current round's fetches
    new_effective_optimizers,  \* queue.Queue, FIFO of object ids
    all_effective_optimizers,  \* batch: id of the cumulative HintSet, 0 before
    found_new_optimizers,      \* batch loop flag
    pc,                        \* position of the orchestrating thread
    todo,                      \* fetches of the current round not yet started
    inflight,                  \* fetches started and not finished
    raised,                    \* a fetch of the current round raised
    fetchLog,                  \* every fetch started: <<object id, disabled knobs>>
    explained,                 \* the optimizer: disabled knob set -> plan
    returned,                  \* approximate_query_span has returned its span
    registered,                \* storage.register_optimizer calls
    edges                      \* storage.register_optimizer_dependency calls

vars == <<knobs, find_alternative_rules, batch_wise, heap, hintsets, query_span,
          results, effective_optimizers_indexes, default_plan, default_plan_hash,
          args, new_effective_optimizers, all_effective_optimizers, found_new_optimizers,
          pc, todo, inflight, raised, fetchLog, explained, returned, registered, edges>>

\* ------------------------------------------------------------ the entity
\* HintSet.__init__
HintSet(k, dep) ==
    [knobs |-> k, dependencies |-> dep, plan |-> None, required |-> FALSE]

\* list(a set): the elements in ascending order
RECURSIVE SetToList(_)
SetToList(S) ==
    IF S = {} THEN <<>>
    ELSE LET m == CHOOSE x \in S : \A y \in S : x <= y
         IN <<m>> \o SetToList(S \ {m})

\* faulty variant: the parent's own knobs are added, its ancestors' are not
get_all_knobs_OneLevel(h, id) ==
    SetToList(h[id].knobs) \o
      (IF h[id].dependencies # 0 THEN SetToList(h[h[id].dependencies].knobs) ELSE <<>>)

\* HintSet.get_all_knobs: own knobs followed by the parent's list
RECURSIVE get_all_knobs(_, _)
get_all_knobs(h, id) ==
    SetToList(h[id].knobs) \o
      (IF h[id].dependencies # 0 THEN get_all_knobs(h, h[id].dependencies) ELSE <<>>)

\* the set of values of a list
Range(s) == {s[i] : i \in 1..Len(s)}

\* hash(res.plan) for each result
Hashes(h, res) == [i \in 1..Len(res) |-> Hash(h[res[i]].plan)]

\* np.where(flags)[0]: the ascending indices at which flags holds
RECURSIVE WhereFrom(_, _)
WhereFrom(flags, i) ==
    IF i > Len(flags) THEN <<>>
    ELSE (IF flags[i] THEN <<i>> ELSE <<>>) \o WhereFrom(flags, i + 1)

Where(flags) == WhereFrom(flags, 1)

\* faulty variant: the failure hash is not excluded
EffectiveIndexes_NoFailedTest(hashes, dflt) ==
    Where([i \in 1..Len(hashes) |-> hashes[i] # dflt])

\* faulty variant: the baseline hash is not excluded
EffectiveIndexes_NoDefaultTest(hashes, dflt) ==
    Where([i \in 1..Len(hashes) |-> hashes[i] # Hash(FAILED)])

\* faulty variant: | in place of &
EffectiveIndexes_Or(hashes, dflt) ==
    Where([i \in 1..Len(hashes) |-> hashes[i] # dflt \/ hashes[i] # Hash(FAILED)])

\* np.where((hashes != default_plan_hash) & (hashes != failed_plan_hash))
EffectiveIndexes(hashes, dflt) ==
    Where([i \in 1..Len(hashes) |-> hashes[i] # dflt /\ hashes[i] # Hash(FAILED)])

\* faulty variant: != in place of ==
RequiredIndexes_Negated(hashes) ==
    Where([i \in 1..Len(hashes) |-> hashes[i] # Hash(FAILED)])

\* np.where(hashes == failed_plan_hash)
RequiredIndexes(hashes) ==
    Where([i \in 1..Len(hashes) |-> hashes[i] = Hash(FAILED)])

\* results[indexes]
Take(arr, idx) == [j \in 1..Len(idx) |-> arr[idx[j]]]

\* faulty variant: nothing is deleted
Delete_Nothing(arr, idx) == arr

\* np.delete(arr, indexes)
RECURSIVE DeleteFrom(_, _, _)
DeleteFrom(arr, idx, i) ==
    IF i > Len(arr) THEN <<>>
    ELSE (IF i \in idx THEN <<>> ELSE <<arr[i]>>) \o DeleteFrom(arr, idx, i + 1)

Delete(arr, idx) == DeleteFrom(arr, idx, 1)

\* --------------------------------------------------------------- Init
Init ==
    /\ \E n \in 1..MaxKnobs : knobs = [i \in 1..n |-> i]
    /\ find_alternative_rules \in BOOLEAN
    /\ batch_wise \in BOOLEAN
    \* line 50: one singleton per knob; line 53: the empty-knob HintSet
    /\ heap = [i \in 1..(Len(knobs) + 1) |->
                 IF i <= Len(knobs) THEN HintSet({knobs[i]}, 0) ELSE HintSet({}, 0)]
    /\ hintsets = [i \in 1..Len(knobs) |-> i]
    /\ query_span = <<>>
    /\ results = <<>>
    /\ effective_optimizers_indexes = <<>>
    /\ default_plan = Len(knobs) + 1
    /\ default_plan_hash = 0
    /\ args = <<>>
    /\ new_effective_optimizers = <<>>
    /\ all_effective_optimizers = 0
    /\ found_new_optimizers = FALSE
    /\ pc = "baseline"
    /\ todo = <<Len(knobs) + 1>>
    /\ inflight = {}
    /\ raised = FALSE
    /\ fetchLog = <<>>
    /\ explained = [S \in SUBSET (1..MaxKnobs) |-> None]
    /\ returned = FALSE
    /\ registered = <<>>
    /\ edges = <<>>

\* ------------------------------------------------------- the plan fetcher
\* rounds whose fetches go through thread_pool.map (lines 94 and 108); the
\* baseline fetches (lines 53, 91) are direct calls and the singleton round
\* (line 57) uses the builtin map
Pooled == pc \in {"iter_fetch", "batch_fetch"}

\* number of fetches that can run at the same time in the current round
Limit == IF Pooled THEN N_THREADS ELSE 1

\* get_query_plan lines 34-37: a connector is created and the knobs of
\* hintset.get_all_knobs() are disabled on it
StartFetch ==
    /\ pc \in {"baseline", "singletons", "batch_base", "iter_fetch", "batch_fetch"}
    /\ todo # <<>>
    /\ Cardinality(inflight) < Limit
    /\ (raised => Pooled)
    /\ inflight' = inflight \cup {Head(todo)}
    /\ todo' = Tail(todo)
    /\ fetchLog' = Append(fetchLog, <<Head(todo), get_all_knobs(heap, Head(todo))>>)
    /\ UNCHANGED <<knobs, find_alternative_rules, batch_wise, heap, hintsets, query_span,
                   results, effective_optimizers_indexes, default_plan, default_plan_hash,
                   args, new_effective_optimizers, all_effective_optimizers,
                   found_new_optimizers, pc, raised, explained, returned, registered, edges>>

\* the knobs disabled on the connector of the fetch of object id
Disabled(id) == Range(get_all_knobs(heap, id))

\* get_query_plan line 38: hintset.plan = connector.explain(sql_query)
FinishFetch(id, p) ==
    /\ id \in inflight
    /\ explained[Disabled(id)] \in {None, p}
    /\ explained' = [explained EXCEPT ![Disabled(id)] = p]
    /\ heap' = [heap EXCEPT ![id].plan = p]
    /\ inflight' = inflight \ {id}
    /\ UNCHANGED <<knobs, find_alternative_rules, batch_wise, hintsets, query_span,
                   results, effective_optimizers_indexes, default_plan, default_plan_hash,
                   args, new_effective_optimizers, all_effective_optimizers,
                   found_new_optimizers, pc, todo, raised, fetchLog, returned,
                   registered, edges>>

\* get_query_plan lines 35-38: the connector raises (construction or transport)
FetchRaises(id) ==
    /\ id \in inflight
    /\ inflight' = inflight \ {id}
    /\ raised' = TRUE
    /\ UNCHANGED <<knobs, find_alternative_rules, batch_wise, heap, hintsets, query_span,
                   results, effective_optimizers_indexes, default_plan, default_plan_hash,
                   args, new_effective_optimizers, all_effective_optimizers,
                   found_new_optimizers, pc, todo, fetchLog, explained, returned,
                   registered, edges>>

\* the exception leaves approximate_query_span and run_get_query_span; the
\* builtin map stops at the raising call, thread_pool.map re-raises once the
\* tasks it handed out are over (tasks not yet started may or may not run)
Abort ==
    /\ pc \in {"baseline", "singletons", "batch_base", "iter_fetch", "batch_fetch"}
    /\ raised
    /\ inflight = {}
    /\ pc' = "aborted"
    /\ todo' = <<>>
    /\ UNCHANGED <<knobs, find_alternative_rules, batch_wise, heap, hintsets, query_span,
                   results, effective_optimizers_indexes, default_plan, default_plan_hash,
                   args, new_effective_optimizers, all_effective_optimizers,
                   found_new_optimizers, inflight, raised, fetchLog, explained, returned,
                   registered, edges>>

\* faulty variant: the exception of a fetch is swallowed
RoundDone_IgnoreRaise == todo = <<>> /\ inflight = {}

\* faulty variant: the results are not waited for
RoundDone_NoJoin == todo = <<>> /\ ~raised

\* every fetch of the round has returned
RoundDone == todo = <<>> /\ inflight = {} /\ ~raised

\* ------------------------------------------------------ the search engine
\* faulty variant: the first singleton is skipped
SingletonArgs_SkipFirst(pool) == [j \in 1..(Len(pool) - 1) |-> pool[j + 1]]

\* line 56: args = [(connector_type, sql_query, knob) for knob in hintsets]
SingletonArgs(pool) == [j \in 1..Len(pool) |-> pool[j]]

\* lines 54-57: the baseline joins the span, the singletons are fetched
BaselineFetched ==
    /\ pc = "baseline"
    /\ RoundDone
    /\ query_span' = Append(query_span, default_plan)
    /\ args' = SingletonArgs(hintsets)
    /\ todo' = SingletonArgs(hintsets)
    /\ pc' = "singletons"
    /\ UNCHANGED <<knobs, find_alternative_rules, batch_wise, heap, hintsets,
                   results, effective_optimizers_indexes, default_plan, default_plan_hash,
                   new_effective_optimizers, all_effective_optimizers,
                   found_new_optimizers, inflight, raised, fetchLog, explained, returned,
                   registered, edges>>

\* faulty variant: the loop runs on with an empty queue, get() then blocks
IterLoopTest_Always(queue) == TRUE

\* line 103: while not new_effective_optimizers.empty()
IterLoopTest(queue) == queue # <<>>

\* faulty variant: every item is put twice
Put_Twice(queue, items) == queue \o items \o items

\* lines 70-71 and 115: new_effective_optimizers.put(...) for each item
Put(queue, items) == queue \o items

\* faulty variant: every fetched HintSet is flagged, not only the failed ones
MarkRequired_All(h, ids) ==
    [i \in 1..Len(h) |-> IF h[i].plan # None THEN [h[i] EXCEPT !.required = TRUE] ELSE h[i]]

\* lines 74-75: required_optimizer.required = True
MarkRequired(h, ids) ==
    [i \in 1..Len(h) |-> IF i \in ids THEN [h[i] EXCEPT !.required = TRUE] ELSE h[i]]

\* faulty variant: only the first effective HintSet contributes its knobs
KnobsOf_First(h, ids) == IF ids = <<>> THEN {} ELSE h[ids[1]].knobs

\* flatten([hs.knobs for hs in ...]) as a set
KnobsOf(h, ids) == UNION {h[ids[j]].knobs : j \in 1..Len(ids)}

\* lines 57-86 and 120-124: classification of the singleton round, then the
\* entry of the selected strategy
SingletonsFetched ==
    /\ pc = "singletons"
    /\ RoundDone
    /\ LET res    == args
           dflt   == Hash(heap[default_plan].plan)
           hashes == Hashes(heap, res)
           eff    == EffectiveIndexes(hashes, dflt)
           req    == RequiredIndexes(hashes)
           span1  == query_span \o Take(res, req)
           marked == MarkRequired(heap, Range(Take(res, req)))
       IN /\ results' = res
          /\ default_plan_hash' = dflt
          /\ effective_optimizers_indexes' = eff
          /\ hintsets' = Delete(hintsets, Range(eff) \cup Range(req))
          /\ IF ~find_alternative_rules
             THEN \* lines 121-123: the queue is drained into the span
                  /\ query_span' = span1 \o Take(res, eff)
                  /\ new_effective_optimizers' = <<>>
                  /\ heap' = marked
                  /\ pc' = "done"
                  /\ returned' = TRUE
                  /\ UNCHANGED <<all_effective_optimizers, found_new_optimizers>>
             ELSE IF batch_wise
             THEN \* lines 83-86
                  /\ query_span' = span1
                  /\ new_effective_optimizers' = Take(res, eff)
                  /\ heap' = Append(marked, HintSet(KnobsOf(heap, Take(res, eff)), 0))
                  /\ all_effective_optimizers' = Len(heap) + 1
                  /\ found_new_optimizers' = TRUE
                  /\ pc' = "batch_round"
                  /\ UNCHANGED returned
             ELSE \* line 103
                  /\ query_span' = span1
                  /\ new_effective_optimizers' = Put(<<>>, Take(res, eff))
                  /\ heap' = marked
                  /\ pc' = IF IterLoopTest(Take(res, eff)) THEN "iter_pop" ELSE "done"
                  /\ returned' = ~IterLoopTest(Take(res, eff))
                  /\ UNCHANGED <<all_effective_optimizers, found_new_optimizers>>
    /\ UNCHANGED <<knobs, find_alternative_rules, batch_wise, default_plan, args,
                   todo, inflight, raised, fetchLog, explained, registered, edges>>

\* [HintSet(hs.knobs, parent) for hs in hintsets]
Candidates(h, pool, parent) ==
    [j \in 1..Len(pool) |-> HintSet(h[pool[j]].knobs, parent)]

\* the object ids of n objects appended to the arena h
NewIds(h, n) == [j \in 1..n |-> Len(h) + j]

\* ---- iterative approximation (lines 103-119)
\* lines 104-108: pop one effective HintSet, chain every pending knob under it
IterPop ==
    /\ pc = "iter_pop"
    /\ new_effective_optimizers # <<>>
    /\ LET effective_optimizer == Head(new_effective_optimizers)
           cands == Candidates(heap, hintsets, effective_optimizer)
       IN /\ new_effective_optimizers' = Tail(new_effective_optimizers)
          /\ query_span' = Append(query_span, effective_optimizer)
          /\ default_plan_hash' = Hash(heap[effective_optimizer].plan)
          /\ args' = NewIds(heap, Len(cands))
          /\ todo' = NewIds(heap, Len(cands))
          /\ heap' = heap \o cands
    /\ pc' = "iter_fetch"
    /\ UNCHANGED <<knobs, find_alternative_rules, batch_wise, hintsets, results,
                   effective_optimizers_indexes, default_plan, all_effective_optimizers,
                   found_new_optimizers, inflight, raised, fetchLog, explained, returned,
                   registered, edges>>

\* lines 116-119: delete the last pool entry that == the alternative; HintSet
\* defines no __eq__, so == compares object identity
RECURSIVE RemoveFrom(_, _, _)
RemoveFrom(pool, id, i) ==
    IF i = 0 THEN pool
    ELSE IF pool[i] = id THEN Delete(pool, {i})
    ELSE RemoveFrom(pool, id, i - 1)

Remove(pool, id) == RemoveFrom(pool, id, Len(pool))

\* lines 114-119 for every alternative, in order
RECURSIVE RemoveAll(_, _)
RemoveAll(pool, alts) ==
    IF alts = <<>> THEN pool
    ELSE RemoveAll(Remove(pool, Head(alts)), Tail(alts))

\* lines 108-119 and the loop test of line 103
IterClassify ==
    /\ pc = "iter_fetch"
    /\ RoundDone
    /\ LET hashes == Hashes(heap, args)
           eff    == EffectiveIndexes(hashes, default_plan_hash)
           new_alternative_optimizers == Take(args, eff)
           queue1 == Put(new_effective_optimizers, new_alternative_optimizers)
       IN /\ results' = args
          /\ effective_optimizers_indexes' = eff
          /\ new_effective_optimizers' = queue1
          /\ hintsets' = RemoveAll(hintsets, new_alternative_optimizers)
          /\ pc' = IF IterLoopTest(queue1) THEN "iter_pop" ELSE "done"
          /\ returned' = ~IterLoopTest(queue1)
    /\ UNCHANGED <<knobs, find_alternative_rules, batch_wise, heap, query_span,
                   default_plan, default_plan_hash, args, all_effective_optimizers,
                   found_new_optimizers, todo, inflight, raised, fetchLog, explained,
                   registered, edges>>

\* ---- batch approximation (lines 83-100)
\* lines 89-91: the alternatives of the last round join the span, the
\* cumulative HintSet is fetched as the round's baseline
BatchRound ==
    /\ pc = "batch_round"
    /\ found_new_optimizers
    /\ query_span' = query_span \o Take(results, effective_optimizers_indexes)
    /\ default_plan' = all_effective_optimizers
    /\ todo' = <<all_effective_optimizers>>
    /\ pc' = "batch_base"
    /\ UNCHANGED <<knobs, find_alternative_rules, batch_wise, heap, hintsets, results,
                   effective_optimizers_indexes, default_plan_hash, args,
                   new_effective_optimizers, all_effective_optimizers,
                   found_new_optimizers, inflight, raised, fetchLog, explained, returned,
                   registered, edges>>

\* lines 92-94: every pending knob is chained under the cumulative HintSet
BatchBaseFetched ==
    /\ pc = "batch_base"
    /\ RoundDone
    /\ LET cands == Candidates(heap, hintsets, all_effective_optimizers)
       IN /\ default_plan_hash' = Hash(heap[default_plan].plan)
          /\ args' = NewIds(heap, Len(cands))
          /\ todo' = NewIds(heap, Len(cands))
          /\ heap' = heap \o cands
    /\ pc' = "batch_fetch"
    /\ UNCHANGED <<knobs, find_alternative_rules, batch_wise, hintsets, query_span,
                   results, effective_optimizers_indexes, default_plan,
                   new_effective_optimizers, all_effective_optimizers,
                   found_new_optimizers, inflight, raised, fetchLog, explained, returned,
                   registered, edges>>

\* faulty variant: the cumulative HintSet is replaced by the alternative's knobs
RECURSIVE Fold_Replace(_, _, _)
Fold_Replace(h, cum, alts) ==
    IF alts = <<>> THEN [heap |-> h, cum |-> cum]
    ELSE Fold_Replace(Append(h, HintSet(h[Head(alts)].knobs, 0)), Len(h) + 1, Tail(alts))

\* faulty variant: the knobs are added to the cumulative HintSet in place
Fold_InPlace(h, cum, alts) ==
    [heap |-> [h EXCEPT ![cum].knobs = @ \cup KnobsOf(h, alts)], cum |-> cum]

\* lines 98-99: one new cumulative HintSet per alternative, each the union of
\* the previous one's knobs and the alternative's own knobs
RECURSIVE Fold(_, _, _)
Fold(h, cum, alts) ==
    IF alts = <<>> THEN [heap |-> h, cum |-> cum]
    ELSE Fold(Append(h, HintSet(h[cum].knobs \cup h[Head(alts)].knobs, 0)),
              Len(h) + 1, Tail(alts))

\* lines 94-100 and the loop test of line 88
BatchClassify ==
    /\ pc = "batch_fetch"
    /\ RoundDone
    /\ LET hashes == Hashes(heap, args)
           eff    == EffectiveIndexes(hashes, default_plan_hash)
           folded == Fold(heap, all_effective_optimizers, Take(args, eff))
       IN /\ results' = args
          /\ effective_optimizers_indexes' = eff
          /\ heap' = folded.heap
          /\ all_effective_optimizers' = folded.cum
          /\ found_new_optimizers' = (Len(eff) > 0)
          /\ pc' = IF Len(eff) > 0 THEN "batch_round" ELSE "done"
          /\ returned' = (Len(eff) = 0)
    /\ UNCHANGED <<knobs, find_alternative_rules, batch_wise, hintsets, query_span,
                   default_plan, default_plan_hash, args, new_effective_optimizers,
                   todo, inflight, raised, fetchLog, explained, registered, edges>>

\* ------------------------------------------------------------ persistence
\* ','.join(sorted(optimizer.knobs)): the knobs in ascending order
Key(k) == SetToList(k)

\* the key passed as parent of the dependency edge of object id (line 140)
ParentKey(h, id) == Key(h[id].knobs)

\* the dependency edges of lines 139-141 for the span from position i on
RECURSIVE EdgesFrom(_, _, _)
EdgesFrom(h, span, i) ==
    IF i > Len(span) THEN <<>>
    ELSE (IF h[span[i]].dependencies # 0
          THEN <<[hs |-> span[i], child |-> Key(h[span[i]].knobs),
                  parent |-> ParentKey(h, span[i])]>>
          ELSE <<>>) \o EdgesFrom(h, span, i + 1)

\* run_get_query_span lines 135-141, applied to the returned span.  Line 132
\* passes find_alternative_rules=False; the loop is modelled for the span of
\* every mode of approximate_query_span, the branch of line 139 being taken
\* only for a span that holds a HintSet with a dependency.
Persist ==
    /\ pc = "done"
    /\ returned
    /\ registered' = [i \in 1..Len(query_span) |-> Key(heap[query_span[i]].knobs)]
    /\ edges' = EdgesFrom(heap, query_span, 1)
    /\ pc' = "persisted"
    /\ UNCHANGED <<knobs, find_alternative_rules, batch_wise, heap, hintsets, query_span,
                   results, effective_optimizers_indexes, default_plan, default_plan_hash,
                   args, new_effective_optimizers, all_effective_optimizers,
                   found_new_optimizers, todo, inflight, raised, fetchLog, explained,
                   returned>>

\* ------------------------------------------------------------------ Spec
Next ==
    \/ StartFetch
    \/ \E id \in inflight : \E p \in Plans : FinishFetch(id, p)
    \/ \E id \in inflight : FetchRaises(id)
    \/ Abort
    \/ BaselineFetched
    \/ SingletonsFetched
    \/ IterPop
    \/ IterClassify
    \/ BatchRound
    \/ BatchBaseFetched
    \/ BatchClassify
    \/ Persist

Spec == Init /\ [][Next]_vars

\* fairness: the orchestrating thread and the workers of the pool keep running
FairSpec == Spec /\ WF_vars(Next)

\* ================================================================ claims
\* size of the catalog; the singletons are the objects 1..NKnobs, the
\* empty-knob baseline is object NKnobs + 1
NKnobs == Len(knobs)

Singletons == [i \in 1..NKnobs |-> i]

PlanHash(id) == Hash(heap[id].plan)

FailedHash == Hash(FAILED)

InSpan(id) == \E i \in 1..Len(query_span) : query_span[i] = id

InQueue(id) == \E i \in 1..Len(new_effective_optimizers) : new_effective_optimizers[i] = id

InPool(id) == \E i \in 1..Len(hintsets) : hintsets[i] = id

\* the search has returned (its span may or may not have been persisted)
Finished == pc \in {"done", "persisted"}

\* ---- C1
IsFailedSingleton(id) == PlanHash(id) = FailedHash

IsAlternativeSingleton(id) ==
    PlanHash(id) # PlanHash(NKnobs + 1) /\ PlanHash(id) # FailedHash

ExpectedSpan ==
    <<NKnobs + 1>> \o SelectSeq(Singletons, IsFailedSingleton)
                   \o SelectSeq(Singletons, IsAlternativeSingleton)

\* C1: with exploration disabled the returned span is the baseline, then the
\* singletons whose hash is the failure hash (required), then the singletons
\* whose hash differs from the baseline hash and the failure hash (not
\* required), each group in catalog order, and nothing else.
C1_NoExplorationSpan ==
    (Finished /\ ~find_alternative_rules) =>
        /\ query_span = ExpectedSpan
        /\ \A id \in 1..NKnobs :
              /\ IsFailedSingleton(id) => heap[id].required
              /\ IsAlternativeSingleton(id) => ~heap[id].required

\* scenario A: one knob without effect, one alternative, one failed
C1_Witness ==
    /\ Finished /\ ~find_alternative_rules /\ NKnobs = 3
    /\ PlanHash(1) = PlanHash(4) /\ PlanHash(4) # FailedHash
    /\ IsAlternativeSingleton(2) /\ IsFailedSingleton(3)
    /\ query_span = <<4, 3, 2>>

\* ---- C2
\* C2: in every reachable state of every mode, a HintSet of the span that
\* has required = true has a plan whose hash is the failure hash.
C2_RequiredIsFailed ==
    \A i \in 1..Len(query_span) :
        heap[query_span[i]].required => PlanHash(query_span[i]) = FailedHash

\* a required HintSet in the span while an expansion round is running
C2_Witness ==
    /\ pc \in {"iter_fetch", "batch_fetch"}
    /\ \E i \in 1..Len(query_span) : heap[query_span[i]].required
    /\ \E i \in 1..Len(query_span) :
          query_span[i] # NKnobs + 1 /\ ~heap[query_span[i]].required

\* ---- C3
\* the results of the rounds: singletons and chained candidates (the baseline
\* and the cumulative HintSets of the batch strategy are fetched on their own)
IsCandidate(id) == heap[id].dependencies # 0

IsRoundResult(id) == id \in 1..NKnobs \/ IsCandidate(id)

\* the round that fetched id has been classified
Classified(id) ==
    /\ heap[id].plan # None
    /\ (id \in Range(results) \/ id \notin Range(args))

IsParent(id) == \E c \in 1..Len(heap) : heap[c].dependencies = id

\* C3 as stated: every classified round result with the failure hash is
\* required, in the span, and no parent.
C3_Original ==
    \A id \in 1..Len(heap) :
        (IsRoundResult(id) /\ Classified(id) /\ PlanHash(id) = FailedHash) =>
            (heap[id].required /\ InSpan(id) /\ ~IsParent(id))

\* C3 (amended): a singleton with the failure hash is marked required and
\* appended to the span; a candidate of an expansion round with the failure
\* hash is dropped (not required, not in the span, not queued); neither is
\* ever the parent of a candidate.
C3_FailedResults ==
    \A id \in 1..Len(heap) :
        (IsRoundResult(id) /\ Classified(id) /\ PlanHash(id) = FailedHash) =>
            /\ ~IsParent(id)
            /\ (id \in 1..NKnobs => heap[id].required /\ InSpan(id))
            /\ (IsCandidate(id) =>
                   ~heap[id].required /\ ~InSpan(id) /\ ~InQueue(id))

\* a failed singleton and a failed candidate, both classified
C3_Witness ==
    /\ \E id \in 1..NKnobs : Classified(id) /\ PlanHash(id) = FailedHash
    /\ \E id \in 1..Len(heap) :
          IsCandidate(id) /\ Classified(id) /\ PlanHash(id) = FailedHash
    /\ Finished

\* ---- C4
\* the singleton round has been classified: default_plan_hash has been
\* assigned (line 59; it starts as 0, which is the hash of no plan)
SingletonRoundOver == default_plan_hash # 0

IsSameSingleton(id) == PlanHash(id) = PlanHash(NKnobs + 1)

UsesKnobOf(id) ==
    \E c \in 1..Len(heap) : IsCandidate(c) /\ heap[c].knobs = heap[id].knobs

\* C4 as stated: a singleton with the baseline hash leaves the pool, is not
\* in the span, and its knob builds no candidate.
C4_Original ==
    SingletonRoundOver =>
        \A id \in 1..NKnobs :
            IsSameSingleton(id) => (~InPool(id) /\ ~InSpan(id) /\ ~UsesKnobOf(id))

\* C4 (amended): a singleton whose hash is the baseline hash and not the
\* failure hash is never in the span and never queued, but it is kept in the
\* pending pool, and the pool holds exactly these singletons; a singleton
\* whose hash is the baseline hash and the failure hash (failed baseline) is
\* required, in the span and out of the pool.
C4_SameSingletons ==
    SingletonRoundOver =>
        /\ \A id \in 1..NKnobs :
              /\ (IsSameSingleton(id) /\ ~IsFailedSingleton(id)) =>
                     (InPool(id) /\ ~InSpan(id) /\ ~InQueue(id) /\ ~heap[id].required)
              /\ (IsSameSingleton(id) /\ IsFailedSingleton(id)) =>
                     (~InPool(id) /\ InSpan(id) /\ heap[id].required)
        /\ \A i \in 1..Len(hintsets) :
              /\ hintsets[i] \in 1..NKnobs
              /\ IsSameSingleton(hintsets[i]) /\ ~IsFailedSingleton(hintsets[i])

\* a kept singleton whose knob was chained under a parent in a later round
C4_Witness ==
    /\ SingletonRoundOver
    /\ \E id \in 1..NKnobs :
          IsSameSingleton(id) /\ ~IsFailedSingleton(id) /\ InPool(id) /\ UsesKnobOf(id)

\* ---- C5
\* C5: iterative strategy: no knob is the own knob of two queued or span
\* HintSets that have different parents.
C5_KnobConsumedOnce ==
    (find_alternative_rules /\ ~batch_wise) =>
        \A a, b \in 1..Len(heap) :
            ( /\ IsCandidate(a) /\ IsCandidate(b)
              /\ (InSpan(a) \/ InQueue(a)) /\ (InSpan(b) \/ InQueue(b))
              /\ heap[a].knobs = heap[b].knobs )
            => heap[a].dependencies = heap[b].dependencies

\* failing input of C5: catalog <<k1, k2, k3>>, k1 without effect, k2 and k3
\* alternative, and k1 alternative under k2 and under k3
C5_Reached ==
    /\ find_alternative_rules /\ ~batch_wise
    /\ \E a, b \in 1..Len(heap) :
          /\ IsCandidate(a) /\ IsCandidate(b) /\ InSpan(a) /\ InSpan(b)
          /\ heap[a].knobs = heap[b].knobs
          /\ heap[a].dependencies # heap[b].dependencies

\* ---- C6
Cumulative == heap[all_effective_optimizers].knobs

\* C6: batch strategy: the knob set of the cumulative HintSet never loses a
\* knob, the search returns exactly after the first round without an
\* alternative, and that round is eventually reached (or a fetch raised).
C6_BatchMonotoneTerminates ==
    /\ [][(all_effective_optimizers # 0 /\ all_effective_optimizers' # 0) =>
             Cumulative \subseteq Cumulative']_vars
    /\ [][(pc = "batch_fetch" /\ pc' \notin {"batch_fetch", "aborted"}) =>
             /\ (pc' = "done") = (effective_optimizers_indexes' = <<>>)
             /\ (pc' = "batch_round") = (effective_optimizers_indexes' # <<>>)]_vars
    /\ ((find_alternative_rules /\ batch_wise) => <>(returned \/ pc = "aborted"))

\* a batch search that returned after at least two rounds, the cumulative
\* HintSet having grown beyond the singleton alternatives
C6_Witness ==
    /\ find_alternative_rules /\ batch_wise /\ Finished
    /\ \E id \in 1..Len(heap) : IsCandidate(id) /\ InSpan(id)
    /\ Cardinality(Cumulative) >= 2

\* ---- C7
\* C7: the singleton round issues exactly k + 1 fetches, the baseline first
\* and then one per singleton; every later fetch is of another object, and
\* with exploration disabled there is no later fetch.
C7_FetchCount ==
    /\ (pc \in {"baseline", "singletons"}) => Len(fetchLog) <= NKnobs + 1
    /\ SingletonRoundOver =>
          /\ Len(fetchLog) >= NKnobs + 1
          /\ fetchLog[1][1] = NKnobs + 1
          /\ \A i \in 1..NKnobs : fetchLog[i + 1][1] = i
          /\ \A i \in 1..Len(fetchLog) : i > NKnobs + 1 => fetchLog[i][1] > NKnobs + 1
    /\ (Finished /\ ~find_alternative_rules) => Len(fetchLog) = NKnobs + 1

C7_Witness ==
    /\ Finished /\ ~find_alternative_rules
    /\ NKnobs = 3 /\ Len(fetchLog) = 4

\* ---- C8
\* id and the objects reached from it by at most k dependency links
RECURSIVE Closure(_, _)
Closure(S, k) ==
    LET next == S \cup ({heap[x].dependencies : x \in S} \ {0})
    IN IF k = 0 \/ next = S THEN S ELSE Closure(next, k - 1)

AncestorsAndSelf(id) == Closure({id}, Len(heap))

ResolvedKnobs(id) == UNION {heap[a].knobs : a \in AncestorsAndSelf(id)}

\* C8: the knobs disabled for a fetch are, as a set, the own knobs of the
\* HintSet together with the knobs of all its ancestors; its own knobs when
\* it has no dependency.
C8_DisabledKnobs ==
    \A i \in 1..Len(fetchLog) :
        LET id == fetchLog[i][1]
            disabled == Range(fetchLog[i][2])
        IN /\ disabled = ResolvedKnobs(id)
           /\ (heap[id].dependencies = 0 => disabled = heap[id].knobs)
           /\ (heap[id].plan # None => heap[id].plan = explained[disabled])

\* a fetch of a chain of depth three with three different knobs
C8_Witness ==
    \E i \in 1..Len(fetchLog) :
        LET id == fetchLog[i][1]
        IN /\ heap[id].dependencies # 0
           /\ heap[heap[id].dependencies].dependencies # 0
           /\ Cardinality(Range(fetchLog[i][2])) = 3
           /\ heap[id].plan # None

C10_FatalFetch ==
    [][ /\ raised => (raised' /\ pc' \in {pc, "aborted"} /\ Len(todo') <= Len(todo))
        /\ raised' => (~returned' /\ registered' = <<>> /\ edges' = <<>>)
        /\ (pc = "aborted") => (pc' = "aborted") ]_vars

\* the search aborted in an expansion round, the span partly built
C10_Witness ==
    /\ pc = "aborted"
    /\ Len(query_span) > 1
    /\ \E id \in 1..Len(heap) : IsCandidate(id)

\* ---- C11
\* the pool holds a HintSet with the same knob set as object id
PoolHasKnobsOf(id) ==
    \E i \in 1..Len(hintsets) : heap[hintsets[i]].knobs = heap[id].knobs

\* C11: iterative strategy: once its round is classified, a candidate that
\* was classified alternative is queued (or already popped into the span)
\* and the pool entry with the same knob set is gone.
C11_AlternativeLeavesPool ==
    (find_alternative_rules /\ ~batch_wise) =>
        \A id \in 1..Len(heap) :
            ( /\ IsCandidate(id) /\ Classified(id)
              /\ PlanHash(id) # FailedHash
              /\ PlanHash(id) # PlanHash(heap[id].dependencies) )
            => /\ (InQueue(id) \/ InSpan(id))
               /\ ~PoolHasKnobsOf(id)

\* ---- C12
\* the singleton that carries the own knobs of object id
SingletonOf(id) == CHOOSE s \in 1..NKnobs : heap[s].knobs = heap[id].knobs

\* C12: no candidate of an expansion round, in either strategy, has as its
\* own knob a knob whose singleton was classified required or alternative;
\* those singletons have left the pool when the singleton round is over.
C12_TerminalKnobs ==
    /\ SingletonRoundOver =>
          \A s \in 1..NKnobs :
              (IsFailedSingleton(s) \/ IsAlternativeSingleton(s)) => ~InPool(s)
    /\ \A id \in 1..Len(heap) :
          IsCandidate(id) =>
              /\ \E s \in 1..NKnobs : heap[s].knobs = heap[id].knobs
              /\ ~IsFailedSingleton(SingletonOf(id))
              /\ ~IsAlternativeSingleton(SingletonOf(id))
              /\ ~heap[SingletonOf(id)].required

\* candidates were built in an expansion round while a required and an
\* alternative singleton exist
C12_Witness ==
    /\ find_alternative_rules /\ NKnobs = 3
    /\ \E s \in 1..NKnobs : heap[s].required
    /\ \E s \in 1..NKnobs : SingletonRoundOver /\ IsAlternativeSingleton(s)
    /\ \E id \in 1..Len(heap) : IsCandidate(id) /\ heap[id].plan # None

\* ---- C13
\* C13: the iterative strategy terminates: the queue runs empty and the
\* search returns (or a fetch raised and the search aborted).
C13_IterativeTerminates ==
    (find_alternative_rules /\ ~batch_wise) => <>(returned \/ pc = "aborted")

\* an iterative search that returned after chaining a candidate under a
\* candidate
C13_Witness ==
    /\ find_alternative_rules /\ ~batch_wise /\ returned
    /\ new_effective_optimizers = <<>>
    /\ \E id \in 1..Len(heap) :
          IsCandidate(id) /\ InSpan(id) /\ IsCandidate(heap[id].dependencies)

\* ---- C14
\* the HintSets classified alternative so far: singletons against the root
\* baseline, candidates against their parent
IsAlternativeSoFar(id) ==
    \/ id \in 1..NKnobs /\ SingletonRoundOver /\ IsAlternativeSingleton(id)
    \/ /\ IsCandidate(id) /\ Classified(id)
       /\ PlanHash(id) # FailedHash
       /\ PlanHash(id) # PlanHash(heap[id].dependencies)

\* C14: batch strategy: the cumulative HintSet has no dependency and its
\* knobs are the union of the own knobs of every HintSet classified
\* alternative so far; it is the HintSet fetched as the round's baseline, its
\* hash is the hash the candidates are classified against, and every
\* candidate of the round is chained under it.
C14_CumulativeHintSet ==
    (find_alternative_rules /\ batch_wise /\ all_effective_optimizers # 0) =>
        /\ heap[all_effective_optimizers].dependencies = 0
        /\ Cumulative = UNION {heap[id].knobs :
                                 id \in {x \in 1..Len(heap) : IsAlternativeSoFar(x)}}
        /\ (pc \in {"batch_base", "batch_fetch"}) =>
               default_plan = all_effective_optimizers
        /\ (pc = "batch_fetch") =>
               /\ default_plan_hash = PlanHash(all_effective_optimizers)
               /\ \A i \in 1..Len(args) :
                     heap[args[i]].dependencies = all_effective_optimizers

\* a second batch round is fetching its candidates under a cumulative HintSet
\* that holds two singleton alternatives and an alternative of the first round
C14_Witness ==
    /\ find_alternative_rules /\ batch_wise /\ pc = "batch_fetch"
    /\ Cardinality(Cumulative) >= 2
    /\ \E id \in 1..Len(heap) : IsCandidate(id) /\ InSpan(id)
    /\ args # <<>>

\* ---- C15
FetchedIds(log) == [i \in 1..Len(log) |-> log[i][1]]

NoDuplicates(seq) ==
    \A i, j \in 1..Len(seq) : i # j => seq[i] # seq[j]

\* C15: no HintSet instance is fetched twice; a plan, once written, is never
\* written again; a plan is written only by the worker that fetches that
\* instance, and that step changes nothing else of the search state; the
\* pool, the queue and the span change only while no worker is running.
C15_PlanWrittenOnce ==
    [][ /\ NoDuplicates(FetchedIds(fetchLog'))
        /\ \A id \in 1..Len(heap) :
              /\ heap[id].plan # None => heap'[id].plan = heap[id].plan
              /\ heap'[id].plan # heap[id].plan =>
                    /\ id \in inflight /\ id \notin inflight'
                    /\ heap' = [heap EXCEPT ![id].plan = heap'[id].plan]
                    /\ UNCHANGED <<hintsets, new_effective_optimizers, query_span>>
        /\ (hintsets' # hintsets \/ new_effective_optimizers' # new_effective_optimizers
              \/ query_span' # query_span) => (inflight = {} /\ inflight' = {})
      ]_vars

\* in a pooled round one worker has written its plan while another fetch is
\* still running
C15_Witness ==
    /\ Pooled /\ inflight # {}
    /\ \E i \in 1..Len(args) : heap[args[i]].plan # None
    /\ Len(fetchLog) > NKnobs + 2

\* ---- C16
\* the HintSets the current round fetches
CurrentRound ==
    IF pc \in {"baseline", "batch_base"} THEN {default_plan}
    ELSE IF pc \in {"singletons", "iter_fetch", "batch_fetch"} THEN Range(args)
    ELSE {}

\* C16: rounds never overlap: only fetches of the current round are pending
\* or running; when a fetch starts, every fetch of the earlier rounds has
\* stored its plan and has been classified; the orchestrating thread moves on
\* and changes pool, queue and span only while no fetch is running.
C16_RoundsDoNotOverlap ==
    /\ [](inflight \cup Range(todo) \subseteq CurrentRound)
    /\ [][ /\ (fetchLog' # fetchLog) =>
                 \A i \in 1..Len(fetchLog) :
                     fetchLog[i][1] \notin CurrentRound =>
                         /\ heap[fetchLog[i][1]].plan # None
                         /\ fetchLog[i][1] \notin inflight
                         /\ Classified(fetchLog[i][1])
           /\ (pc' # pc \/ hintsets' # hintsets \/ query_span' # query_span
                 \/ new_effective_optimizers' # new_effective_optimizers) =>
                 (inflight = {} /\ inflight' = {})
           /\ (pc' \notin {pc, "aborted"}) => todo = <<>>
         ]_vars

\* the second expansion round has two fetches running
C16_Witness ==
    /\ Pooled /\ Cardinality(inflight) = 2
    /\ \E id \in 1..Len(heap) : IsCandidate(id) /\ Classified(id)

\* ---- C17
\* C17: the singleton fetches are executed by the worker pool: with more
\* than one worker, while one singleton fetch is running and another is
\* waiting, the waiting one can start; never more than N_THREADS run.
C17_SingletonsInParallel ==
    /\ Cardinality(inflight) <= N_THREADS
    /\ ( /\ pc = "singletons" /\ N_THREADS > 1
         /\ Cardinality(inflight) = 1 /\ todo # <<>> /\ ~raised )
       => ENABLED StartFetch

\* what the code does instead: singleton fetches run one at a time
C17_SingletonsSequential ==
    (pc \in {"baseline", "singletons", "batch_base"}) => Cardinality(inflight) <= 1

\* ---- C18
IsPrefix(a, b) == Len(a) <= Len(b) /\ \A i \in 1..Len(a) : a[i] = b[i]

\* C18: iterative strategy: the span only grows at its end; a HintSet is
\* appended when it is popped from the head of the queue; no HintSet is in
\* the span twice, none is in the span and still queued; the parent of a span
\* HintSet is at an earlier position; when the search has returned every
\* HintSet classified alternative is in the span.
C18_IterativeSpan ==
        /\ []((find_alternative_rules /\ ~batch_wise) =>
              /\ NoDuplicates(query_span)
              /\ NoDuplicates(new_effective_optimizers)
              /\ \A i \in 1..Len(query_span) :
                    /\ ~InQueue(query_span[i])
                    /\ heap[query_span[i]].dependencies # 0 =>
                          \E j \in 1..(i - 1) :
                              query_span[j] = heap[query_span[i]].dependencies
              /\ returned =>
                    \A id \in 1..Len(heap) : IsAlternativeSoFar(id) => InSpan(id))
        /\ [][ (find_alternative_rules /\ ~batch_wise) =>
               /\ IsPrefix(query_span, query_span')
               /\ (pc = "iter_pop" /\ pc' # pc) =>
                     /\ query_span' = Append(query_span, Head(new_effective_optimizers))
                     /\ new_effective_optimizers' = Tail(new_effective_optimizers)
               /\ (pc \in {"iter_fetch", "done", "persisted"}) =>
                     query_span' = query_span ]_vars

\* an iterative search returned a span with a chain of depth two
C18_Witness ==
    /\ find_alternative_rules /\ ~batch_wise /\ returned
    /\ \E i \in 1..Len(query_span) :
          /\ IsCandidate(query_span[i])
          /\ IsCandidate(heap[query_span[i]].dependencies)
    /\ Len(query_span) >= 4

\* ---- C19
\* the hash object id was classified against
ReferenceHash(id) ==
    IF heap[id].dependencies # 0 THEN PlanHash(heap[id].dependencies)
    ELSE PlanHash(NKnobs + 1)

\* C19: in every mode a span HintSet other than the baseline that is not
\* required has a plan whose hash differs from the failure hash and from the
\* hash of its parent's plan, or of the root baseline's plan when it has no
\* dependency.
C19_AlternativeDiffers ==
    \A i \in 1..Len(query_span) :
        (query_span[i] # NKnobs + 1 /\ ~heap[query_span[i]].required) =>
            /\ PlanHash(query_span[i]) # FailedHash
            /\ PlanHash(query_span[i]) # ReferenceHash(query_span[i])

\* a batch span holding an alternative singleton and an alternative candidate
C19_Witness ==
    /\ find_alternative_rules /\ batch_wise
    /\ \E i \in 1..Len(query_span) :
          query_span[i] \in 1..NKnobs /\ ~heap[query_span[i]].required
    /\ \E i \in 1..Len(query_span) : IsCandidate(query_span[i])

====
